---- MODULE Spec2Model ----
(***************************************************************************)
(* The NBA data lake: the provision workflow (main.py), the teardown       *)
(* workflow (delete.py), and the Athena polling loop, run against models   *)
(* of the S3, Glue, Athena and feed services.                              *)
(***************************************************************************)
EXTENDS Integers, Sequences, FiniteSets, TLC

VARIABLES
    bucket,     \* S3: the bucket exists
    objects,    \* S3: the keys stored in the bucket
    body,       \* S3: the content of raw-data/nba_player_data.jsonl
    db,         \* Glue: the database exists
    tables,     \* Glue: the tables of the database
    job,        \* Athena: the analytic query's execution, [id, state]
    nextId,     \* Athena: the next execution id
    pc,         \* the statement the running workflow is about to execute
    op,         \* the top-level call in progress or last made
    prevOp,     \* the top-level call before it
    nops,       \* the number of top-level calls made
    ret,        \* what the last top-level call returned
    raised,     \* an exception left the last top-level call
    calls,      \* the service calls the current top-level call has issued
    steps,      \* the functions the current workflow has called, in order
    w0,         \* the external state when the current top-level call began
    faults,     \* the service calls of the current top-level call that a fault failed
    prevFaulted, \* a fault failed a service call of the top-level call before it
    failed,     \* the functions of the current top-level call in which a service call failed
    nba_data,   \* main(): the fetched batch
    qid,        \* query_nba_data(): query_execution_id (0 is None)
    status,     \* what wait_for_query_to_complete returned ("none": not yet)
    observed,   \* the state the most recent successful poll returned
    fetchState, \* the job's state when get_query_results was last called
    rendered,   \* get_query_results printed the rows
    config      \* the environment variables that are set

vars == <<bucket, objects, body, db, tables, job, nextId, pc, op, prevOp,
          nops, ret, raised, calls, steps, w0, faults, prevFaulted, failed,
          nba_data, qid, status, observed, fetchState, rendered, config>>

\* ------------------------------------------------------------------ bounds
MaxKeys == 3
PageSize == 1
MaxTables == 1
TablePageSize == 1
MaxRecords == 1
MaxBatch == 1
MaxPolls == 3
MaxOps == 2
MaxFaults == 1
MaxText == 2
MaxCodecBatch == 2

\* ------------------------------------------------------------- constants
SleepInterval == 2
CreateDelay == 5

Keys == 1..MaxKeys
\* Keys in listing (lexicographic) order: "athena-results/..." < "raw-data/..." < the rest.
AthenaKeys == {1}
RawKey == 2
Tables == 1..MaxTables
NbaPlayers == 1
\* A record is modelled by the text of a string field of it.
Records == {[i \in 1..k |-> "n"] : k \in 1..MaxRecords}
\* Characters a field can hold: a plain letter, a line feed, a backslash, a quote.
Alphabet == {"n", "\n", "\\", "\""}
TextsUpTo(n) == UNION {[1..k -> Alphabet] : k \in 0..n}
Fault == {"ok", "client", "other"}
\* The environment variables main.py reads.
AllConfig == {"AWS_BUCKET_NAME", "GLUE_DATABASE_NAME", "API_KEY", "NBA_ENDPOINT"}
FaultKind == {"client", "other"}
Terminal == {"SUCCEEDED", "FAILED", "CANCELLED"}
JobStates == {"SUBMITTED", "RUNNING"} \cup Terminal

RECURSIVE SeqsUpTo(_)
SeqsUpTo(n) ==
    IF n = 0 THEN {<<>>}
    ELSE LET S == SeqsUpTo(n - 1)
         IN S \cup {Append(s, r) : s \in {t \in S : Len(t) = n - 1}, r \in Records}
Batches == SeqsUpTo(MaxBatch)
\* The batches convert_to_line_delimited_json is checked on.
CodecRecords == TextsUpTo(MaxText)
CodecBatches == UNION {[1..k -> CodecRecords] : k \in 0..MaxCodecBatch}

Min(S) == CHOOSE x \in S : \A y \in S : x <= y
RECURSIVE SortedSeq(_)
SortedSeq(S) == IF S = {} THEN <<>> ELSE <<Min(S)>> \o SortedSeq(S \ {Min(S)})

\* One page of a listing of S with at most n entries.
FirstPage(S, n) == {k \in S : Cardinality({j \in S : j < k}) < n}

\* ------------------------------------------------------- the external state
\* A fault failed a service call of the current top-level call.
faulted == faults > 0

World == [bucket |-> bucket, objects |-> objects, body |-> body,
          db |-> db, tables |-> tables]

\* The outcome of the i-th service call of a function run under the fault plan
\* (failAt, kind): the fault when it hits this call, the service's own answer
\* otherwise.
Outcome(i, failAt, kind, answer) == IF failAt = i THEN kind ELSE answer

\* The outcome of the only service call of a function: the fault f, or the
\* service's own answer when there is none.
Answer(f, answer) == IF f = "ok" THEN answer ELSE f

Call(name, arg) == <<name, arg>>
Api(c) == c[1]
Issued(cs, name) == \E i \in 1..Len(cs) : Api(cs[i]) = name
Count(cs, name) == Cardinality({i \in 1..Len(cs) : Api(cs[i]) = name})

\* What a function call yields: the external state it leaves, the service calls
\* it issued, whether an exception left it, whether a fault hit one of its
\* calls, whether a call was answered with an error, and its return value.
Result(w, cs, r, h, e, v) ==
    [w |-> w, calls |-> cs, raised |-> r, hit |-> h, err |-> e, ret |-> v]

\* ------------------------------------------------------------- main.py
\* except Exception: every error of the try block is caught.
CaughtByExceptionMut(kind) == kind = "client"
CaughtByException(kind) == kind \in {"client", "other"}

\* create_s3_bucket(): region is us-east-1, so one create_bucket call; creating
\* a bucket the caller already owns succeeds there.
create_s3_bucket(w, f) ==
    Result(IF f = "ok" THEN [w EXCEPT !.bucket = TRUE] ELSE w,
           <<Call("create_bucket", 0)>>,
           f # "ok" /\ ~CaughtByException(f), f # "ok", f # "ok", "None")

\* create_glue_database(): AlreadyExistsException when the database exists.
create_glue_databaseMut(w, f) ==
    LET o == Answer(f, "ok")
    IN Result(IF o = "ok" THEN [w EXCEPT !.db = TRUE, !.tables = {}] ELSE w,
              <<Call("create_database", 0)>>,
              o # "ok" /\ ~CaughtByException(o), f # "ok", o # "ok", "None")
create_glue_database(w, f) ==
    LET o == Answer(f, IF w.db THEN "client" ELSE "ok")
    IN Result(IF o = "ok" THEN [w EXCEPT !.db = TRUE, !.tables = {}] ELSE w,
              <<Call("create_database", 0)>>,
              o # "ok" /\ ~CaughtByException(o), f # "ok", o # "ok", "None")

\* json.dumps escapes the control characters, the backslash and the quote of
\* a string, so its output holds no raw line feed.
EscapeMut(text) == text
RECURSIVE Escape(_)
Escape(text) ==
    IF text = <<>> THEN <<>>
    ELSE (CASE Head(text) = "\n" -> <<"\\", "n">>
            [] Head(text) = "\\" -> <<"\\", "\\">>
            [] Head(text) = "\"" -> <<"\\", "\"">>
            [] OTHER -> <<Head(text)>>) \o Escape(Tail(text))

\* json.dumps(record): one line of text for one record.
json_dumps(record) == <<"{", "\"">> \o Escape(record) \o <<"\"", "}">>

\* "\n".join(lines)
RECURSIVE Join(_)
Join(lines) ==
    IF Len(lines) = 0 THEN <<>>
    ELSE IF Len(lines) = 1 THEN lines[1]
    ELSE lines[1] \o <<"\n">> \o Join(Tail(lines))

convert_to_line_delimited_json(data) ==
    Join([i \in 1..Len(data) |-> json_dumps(data[i])])

\* upload_data_to_s3(data): put_object overwrites the object at the fixed key;
\* NoSuchBucket when the bucket is missing.
upload_data_to_s3(w, data, f) ==
    LET line_delimited_data == convert_to_line_delimited_json(data)
        o == Answer(f, IF w.bucket THEN "ok" ELSE "client")
    IN Result(IF o = "ok"
              THEN [w EXCEPT !.objects = @ \cup {RawKey}, !.body = line_delimited_data]
              ELSE w,
              <<Call("put_object", RawKey)>>,
              o # "ok" /\ ~CaughtByException(o), f # "ok", o # "ok", "None")

\* create_glue_table(): EntityNotFoundException without the database,
\* AlreadyExistsException when nba_players is there.
create_glue_table(w, f) ==
    LET o == Answer(f, IF w.db /\ NbaPlayers \notin w.tables THEN "ok" ELSE "client")
    IN Result(IF o = "ok" THEN [w EXCEPT !.tables = @ \cup {NbaPlayers}] ELSE w,
              <<Call("create_table", NbaPlayers)>>,
              o # "ok" /\ ~CaughtByException(o), f # "ok", o # "ok", "None")

\* if state in ['SUCCEEDED', 'FAILED', 'CANCELLED']
IsTerminalMut(state) == state \in {"SUCCEEDED", "FAILED", "CANCELLED", "RUNNING"}
IsTerminal(state) == state \in {"SUCCEEDED", "FAILED", "CANCELLED"}

\* if nba_data:
HasDataMut(data) == TRUE
HasData(data) == data # <<>>

\* if query_execution_id:
HasExecutionIdMut(id) == TRUE
HasExecutionId(id) == id # 0

\* if status == "SUCCEEDED":
ShouldFetchMut(s) == s \in {"SUCCEEDED", "FAILED"}
ShouldFetch(s) == s = "SUCCEEDED"

\* run_athena_query / configure_athena: start_query_execution hands out the
\* next execution id.
start_query_execution(f) == Answer(f, "ok")

\* get_query_results(query_execution_id): no check of the job's state in the
\* function; Athena answers InvalidRequestException unless the query SUCCEEDED.
GetQueryResultsAnswer(j, id, f) ==
    Answer(f, IF j.id = id /\ j.state = "SUCCEEDED" THEN "ok" ELSE "client")
get_query_results(w, j, id, f) ==
    LET o == GetQueryResultsAnswer(j, id, f)
    IN Result(w, <<Call("get_query_results", id)>>,
              o # "ok" /\ ~CaughtByException(o), f # "ok", o # "ok", "None")
\* print([col.get('VarCharValue', '') for col in row['Data']]) for each row
RowsPrinted(j, id, f) == GetQueryResultsAnswer(j, id, f) = "ok"

\* fetch_nba_data(): the feed's records, or [] on any failure.
fetch_nba_data(f, data) == IF f = "ok" THEN data ELSE <<>>

\* ------------------------------------------------------------ delete.py
\* except ClientError: an exception of any other class leaves the function.
CaughtByClientError(kind) == kind = "client"

\* bucket_exists(bucket_name): head_bucket answers 404 for a missing bucket.
bucket_exists(w, f) ==
    LET o == Answer(f, IF w.bucket THEN "ok" ELSE "client")
    IN Result(w, <<Call("head_bucket", 0)>>,
              o # "ok" /\ ~CaughtByClientError(o), f # "ok", o # "ok",
              IF o = "ok" THEN "True" ELSE IF CaughtByClientError(o) THEN "False" ELSE "None")

\* The for loop over objects["Contents"]: delete_object on each listed key in
\* turn; the call numbered first + i deletes page[i]; the loop ends at the
\* first call that fails.
Deleted(page, first, failAt) ==
    IF failAt \in (first + 1)..(first + Len(page)) THEN failAt - first - 1 ELSE Len(page)
LoopFailedMut(page, first, failAt) == FALSE
LoopFailed(page, first, failAt) == failAt \in (first + 1)..(first + Len(page))
LoopCalls(name, page, first, failAt) ==
    [i \in 1..(Deleted(page, first, failAt)
               + IF LoopFailed(page, first, failAt) THEN 1 ELSE 0) |-> Call(name, page[i])]

\* if not bucket_exists(bucket_name): return
SkipMut(exists) == FALSE
Skip(exists) == exists # "True"

\* if "Contents" in objects: the keys of the one page the listing returned.
ListedMut(objs, prefix) == SortedSeq(objs \cap prefix)
Listed(objs, prefix) == SortedSeq(FirstPage(objs \cap prefix, PageSize))

\* delete_athena_query_results(bucket_name): head_bucket, then
\* list_objects_v2(Prefix="athena-results/") and delete_object on each key of
\* the page.
delete_athena_query_results(w, failAt, kind) ==
    LET e == bucket_exists(w, IF failAt = 1 THEN kind ELSE "ok")
        l == Outcome(2, failAt, kind, IF w.bucket THEN "ok" ELSE "client")
        page == Listed(w.objects, AthenaKeys)
        d == Deleted(page, 2, failAt)
        gone == {page[i] : i \in 1..d}
    IN IF e.raised \/ Skip(e.ret)
       THEN Result(w, e.calls, e.raised, e.hit, e.err, "None")
       ELSE IF l # "ok"
       THEN Result(w, e.calls \o <<Call("list_objects_v2", 1)>>,
                   ~CaughtByClientError(l), failAt = 2, TRUE, "None")
       ELSE Result([w EXCEPT !.objects = @ \ gone,
                             !.body = IF RawKey \in gone THEN <<>> ELSE @],
                   e.calls \o <<Call("list_objects_v2", 1)>>
                           \o LoopCalls("delete_object", page, 2, failAt),
                   LoopFailed(page, 2, failAt) /\ ~CaughtByClientError(kind),
                   LoopFailed(page, 2, failAt), LoopFailed(page, 2, failAt), "None")

\* delete_s3_bucket(bucket_name): head_bucket, list_objects_v2 without a
\* prefix, delete_object on each key of the page, then delete_bucket, which
\* answers BucketNotEmpty while an object is left.
delete_s3_bucket(w, failAt, kind) ==
    LET e == bucket_exists(w, IF failAt = 1 THEN kind ELSE "ok")
        l == Outcome(2, failAt, kind, IF w.bucket THEN "ok" ELSE "client")
        page == Listed(w.objects, Keys)
        d == Deleted(page, 2, failAt)
        gone == {page[i] : i \in 1..d}
        left == w.objects \ gone
        w1 == [w EXCEPT !.objects = left, !.body = IF RawKey \in gone THEN <<>> ELSE @]
        cs == e.calls \o <<Call("list_objects_v2", 0)>>
                      \o LoopCalls("delete_object", page, 2, failAt)
        b == Outcome(3 + Len(page), failAt, kind, IF left = {} THEN "ok" ELSE "client")
    IN IF e.raised \/ Skip(e.ret)
       THEN Result(w, e.calls, e.raised, e.hit, e.err, "None")
       ELSE IF l # "ok"
       THEN Result(w, e.calls \o <<Call("list_objects_v2", 0)>>,
                   ~CaughtByClientError(l), failAt = 2, TRUE, "None")
       ELSE IF LoopFailed(page, 2, failAt)
       THEN Result(w1, cs, ~CaughtByClientError(kind), TRUE, TRUE, "None")
       ELSE Result(IF b = "ok" THEN [w1 EXCEPT !.bucket = FALSE] ELSE w1,
                   cs \o <<Call("delete_bucket", 0)>>,
                   b # "ok" /\ ~CaughtByClientError(b),
                   failAt = 3 + Len(page), b # "ok", "None")

\* delete_glue_resources(database_name): get_tables (EntityNotFoundException
\* without the database), delete_table on each table of the page, then
\* delete_database, which removes the database with the tables left in it.
delete_glue_resources(w, failAt, kind) ==
    LET g == Outcome(1, failAt, kind, IF w.db THEN "ok" ELSE "client")
        page == SortedSeq(FirstPage(w.tables, TablePageSize))
        d == Deleted(page, 1, failAt)
        w1 == [w EXCEPT !.tables = @ \ {page[i] : i \in 1..d}]
        cs == <<Call("get_tables", 0)>> \o LoopCalls("delete_table", page, 1, failAt)
        x == Outcome(2 + Len(page), failAt, kind, "ok")
    IN IF g # "ok"
       THEN Result(w, <<Call("get_tables", 0)>>, ~CaughtByClientError(g),
                   failAt = 1, TRUE, "None")
       ELSE IF LoopFailed(page, 1, failAt)
       THEN Result(w1, cs, ~CaughtByClientError(kind), TRUE, TRUE, "None")
       ELSE Result(IF x = "ok" THEN [w1 EXCEPT !.db = FALSE, !.tables = {}] ELSE w1,
                   cs \o <<Call("delete_database", 0)>>,
                   x # "ok" /\ ~CaughtByClientError(x),
                   failAt = 2 + Len(page), x # "ok", "None")

\* ------------------------------------------------------------ the machine
NoJob == [id |-> 0, state |-> "none"]

\* What the services hold when the process starts.
InitWorld ==
    /\ bucket \in BOOLEAN
    /\ objects \in SUBSET Keys
    /\ (~bucket => objects = {})
    /\ body = <<>>
    /\ db \in BOOLEAN
    /\ tables \in SUBSET Tables
    /\ (~db => tables = {})

\* The process before its first call.
InitProcess ==
    /\ job = NoJob
    /\ nextId = 1
    /\ pc = "idle"
    /\ op = "none"
    /\ prevOp = "none"
    /\ nops = 0
    /\ ret = "None"
    /\ raised = FALSE
    /\ calls = <<>>
    /\ steps = <<>>
    /\ w0 = World
    /\ faults = 0
    /\ prevFaulted = FALSE
    /\ failed = {}
    /\ qid = 0
    /\ status = "none"
    /\ observed = "none"
    /\ fetchState = "none"
    /\ rendered = FALSE

Init ==
    /\ InitWorld
    /\ InitProcess
    /\ nba_data = <<>>
    /\ config = AllConfig

SetWorld(w) ==
    /\ bucket' = w.bucket
    /\ objects' = w.objects
    /\ body' = w.body
    /\ db' = w.db
    /\ tables' = w.tables

athena == <<job, nextId>>
locals == <<nba_data, qid, status, observed, fetchState, rendered>>
top == <<op, prevOp, nops, ret, w0, prevFaulted, config>>

\* The names main() of main.py and of delete.py go by here.
Workflows == {"main", "delete_main"}

\* A function called on its own (by a test, or from a shell), run to its end.
Direct(name, r) ==
    /\ pc = "idle"
    /\ op \notin Workflows
    /\ nops < MaxOps
    /\ SetWorld(r.w)
    /\ op' = name
    /\ prevOp' = op
    /\ nops' = nops + 1
    /\ ret' = r.ret
    /\ raised' = r.raised
    /\ calls' = r.calls
    /\ steps' = <<>>
    /\ w0' = World
    /\ faults' = IF r.hit THEN 1 ELSE 0
    /\ prevFaulted' = faulted
    /\ failed' = IF r.err THEN {name} ELSE {}
    /\ pc' = "idle"
    /\ config' = config

\* main() of main.py or of delete.py is entered.
Begin(name, first) ==
    /\ pc = "idle"
    /\ pc' = first
    /\ op' = name
    /\ prevOp' = op
    /\ nops' = nops + 1
    /\ ret' = "None"
    /\ raised' = FALSE
    /\ calls' = <<>>
    /\ steps' = <<>>
    /\ w0' = World
    /\ faults' = 0
    /\ prevFaulted' = faulted
    /\ failed' = {}
    /\ nba_data' = <<>>
    /\ qid' = 0
    /\ status' = "none"
    /\ observed' = "none"
    /\ fetchState' = "none"
    /\ rendered' = FALSE
    /\ UNCHANGED <<bucket, objects, body, db, tables, config>>

\* The process starts: main() of main.py or of delete.py, run once.
Start(name, first) ==
    /\ nops = 0
    /\ Begin(name, first)
    /\ UNCHANGED athena

\* One function call of a workflow; an exception that leaves the function
\* leaves main() too and ends the process.
Step(name, r, next) ==
    /\ pc = name
    /\ (r.hit => faults < MaxFaults)
    /\ SetWorld(r.w)
    /\ steps' = Append(steps, name)
    /\ calls' = calls \o r.calls
    /\ faults' = IF r.hit THEN faults + 1 ELSE faults
    /\ failed' = IF r.err THEN failed \cup {name} ELSE failed
    /\ raised' = r.raised
    /\ pc' = IF r.raised THEN "idle" ELSE next
    /\ UNCHANGED top

\* ------------------------------------------------- main.py: main()
\* The statement that follows each call of main(), where no test decides it.
MainNextMut(name) ==
    CASE name = "create_s3_bucket" -> "create_glue_database"
      [] name = "create_glue_database" -> "sleep"
      [] name = "sleep" -> "fetch_nba_data"
      [] name = "upload_data_to_s3" -> "create_glue_table"
      [] name = "create_glue_table" -> "configure_athena"
      [] name = "configure_athena" -> "run_athena_query"
      [] name = "get_query_results" -> "idle"
MainNext(name) ==
    CASE name = "create_s3_bucket" -> "sleep"
      [] name = "sleep" -> "create_glue_database"
      [] name = "create_glue_database" -> "fetch_nba_data"
      [] name = "upload_data_to_s3" -> "create_glue_table"
      [] name = "create_glue_table" -> "configure_athena"
      [] name = "configure_athena" -> "run_athena_query"
      [] name = "get_query_results" -> "idle"

\* if nba_data: upload_data_to_s3(nba_data)
AfterFetch(data) == IF HasData(data) THEN "upload_data_to_s3" ELSE "create_glue_table"
\* if query_execution_id: status = wait_for_query_to_complete(...)
AfterSubmit(id) == IF HasExecutionId(id) THEN "wait_for_query_to_complete" ELSE "idle"
\* if status == "SUCCEEDED": get_query_results(...)
AfterWait(s) == IF ShouldFetch(s) THEN "get_query_results" ELSE "idle"

\* while True: ... time.sleep(2): the loop goes on while the state is not terminal.
KeepPollingMut(state, polls) == ~IsTerminal(state) /\ polls < 2
KeepPolling(state, polls) == ~IsTerminal(state)

\* bucket_name, glue_database_name, api_key, nba_endpoint: os.getenv gives
\* None for a variable that is not set, and nothing checks it.
\* The values a function passes as a required string parameter: botocore
\* raises ParamValidationError for None, and requests MissingSchema for the
\* URL None, before anything is sent.
Needs(name) ==
    CASE name = "create_s3_bucket" -> {"AWS_BUCKET_NAME"}
      [] name = "create_glue_database" -> {"GLUE_DATABASE_NAME"}
      [] name = "fetch_nba_data" -> {"NBA_ENDPOINT"}
      [] name = "upload_data_to_s3" -> {"AWS_BUCKET_NAME"}
      [] name = "create_glue_table" -> {"GLUE_DATABASE_NAME"}
      [] name = "configure_athena" -> {"GLUE_DATABASE_NAME"}
      [] name = "run_athena_query" -> {"GLUE_DATABASE_NAME"}
\* The values whose absence the service sees: requests drops the header whose
\* value is None, and the feed refuses the request without a key; the output
\* location is the string "s3://None/athena-results/", which Athena refuses.
\* The table location "s3://None/raw-data/" is accepted by Glue.
Refused(name) ==
    CASE name = "fetch_nba_data" -> {"API_KEY"}
      [] name = "configure_athena" -> {"AWS_BUCKET_NAME"}
      [] name = "run_athena_query" -> {"AWS_BUCKET_NAME"}
      [] OTHER -> {}
Sent(name) == Needs(name) \subseteq config
\* What the call meets: the fault, or the service's refusal.
Effective(name, f) ==
    IF f = "ok" /\ ~(Refused(name) \subseteq config) THEN "client" ELSE f
\* The result of the function under the configuration: r when the call is
\* sent, the caught local exception when it is not.
Configured(name, f, r) ==
    IF Sent(name) THEN [r EXCEPT !.hit = (f # "ok")]
    ELSE Result(World, <<>>, ~CaughtByException("other"), FALSE, TRUE, "None")

\* main.py reads and writes no key but raw-data/nba_player_data.jsonl: its runs
\* on a bucket that holds other keys differ from these in those keys only.
StartProvision ==
    /\ objects \subseteq {RawKey}
    /\ Start("main", "create_s3_bucket")

P_create_s3_bucket ==
    /\ \E f \in Fault :
         Step("create_s3_bucket",
              Configured("create_s3_bucket", f,
                         create_s3_bucket(World, Effective("create_s3_bucket", f))),
              MainNext("create_s3_bucket"))
    /\ UNCHANGED <<athena, locals>>

P_sleep ==
    /\ Step("sleep", Result(World, <<Call("sleep", CreateDelay)>>, FALSE, FALSE, FALSE, "None"),
            MainNext("sleep"))
    /\ UNCHANGED <<athena, locals>>

P_create_glue_database ==
    /\ \E f \in Fault :
         Step("create_glue_database",
              Configured("create_glue_database", f,
                         create_glue_database(World, Effective("create_glue_database", f))),
              MainNext("create_glue_database"))
    /\ UNCHANGED <<athena, locals>>

P_fetch_nba_data ==
    /\ \E f0 \in Fault, data \in Batches :
         LET f == Effective("fetch_nba_data", f0)
             got == IF Sent("fetch_nba_data") THEN fetch_nba_data(f, data) ELSE <<>>
         IN /\ Step("fetch_nba_data",
                    Configured("fetch_nba_data", f0,
                               Result(World, <<Call("requests.get", 0)>>,
                                      f # "ok" /\ ~CaughtByException(f),
                                      f # "ok", f # "ok", "None")),
                    AfterFetch(got))
            /\ nba_data' = got
    /\ UNCHANGED <<athena, qid, status, observed, fetchState, rendered>>

P_upload_data_to_s3 ==
    /\ \E f \in Fault :
         Step("upload_data_to_s3",
              Configured("upload_data_to_s3", f,
                         upload_data_to_s3(World, nba_data,
                                           Effective("upload_data_to_s3", f))),
              MainNext("upload_data_to_s3"))
    /\ UNCHANGED <<athena, locals>>

P_create_glue_table ==
    /\ \E f \in Fault :
         Step("create_glue_table",
              Configured("create_glue_table", f,
                         create_glue_table(World, Effective("create_glue_table", f))),
              MainNext("create_glue_table"))
    /\ UNCHANGED <<athena, locals>>

\* configure_athena(): a start_query_execution whose execution is never polled.
P_configure_athena ==
    /\ \E f0 \in Fault :
         LET f == Effective("configure_athena", f0)
             ok == Sent("configure_athena") /\ start_query_execution(f) = "ok"
         IN /\ Step("configure_athena",
                    Configured("configure_athena", f0,
                               Result(World, <<Call("start_query_execution", 0)>>,
                                      ~ok /\ ~CaughtByException(f),
                                      f # "ok", f # "ok", "None")),
                    MainNext("configure_athena"))
            /\ nextId' = IF ok THEN nextId + 1 ELSE nextId
    /\ UNCHANGED <<job, locals>>

\* query_nba_data(): run_athena_query returns the execution id, or None.
P_run_athena_query ==
    /\ \E f0 \in Fault :
         LET f == Effective("run_athena_query", f0)
             ok == Sent("run_athena_query") /\ start_query_execution(f) = "ok"
             id == IF ok THEN nextId ELSE 0
         IN /\ Step("run_athena_query",
                    Configured("run_athena_query", f0,
                               Result(World, <<Call("start_query_execution", id)>>,
                                      ~ok /\ ~CaughtByException(f),
                                      f # "ok", f # "ok", "None")),
                    AfterSubmit(id))
            /\ qid' = id
            /\ job' = IF ok THEN [id |-> nextId, state |-> "SUBMITTED"] ELSE job
            /\ nextId' = IF ok THEN nextId + 1 ELSE nextId
    /\ UNCHANGED <<nba_data, status, observed, fetchState, rendered>>

\* wait_for_query_to_complete is entered.
W_enter ==
    /\ Step("wait_for_query_to_complete", Result(World, <<>>, FALSE, FALSE, FALSE, "None"),
            "poll")
    /\ UNCHANGED <<athena, locals>>

\* One pass of the loop: get_query_execution, then return on a terminal state
\* or go to sleep; an exception caught by the except clause returns "FAILED".
W_poll ==
    /\ pc = "poll"
    /\ \E f \in Fault :
         LET o == Answer(f, "ok")
             state == job.state
             polls == Count(calls, "get_query_execution") + 1
         IN /\ (o = "ok" /\ KeepPolling(state, polls) => polls <= MaxPolls)
            /\ (f # "ok" => faults < MaxFaults)
            /\ calls' = Append(calls, Call("get_query_execution", qid))
            /\ faults' = IF f # "ok" THEN faults + 1 ELSE faults
            /\ failed' = IF o # "ok" THEN failed \cup {"wait_for_query_to_complete"}
                          ELSE failed
            /\ observed' = IF o = "ok" THEN state ELSE observed
            /\ raised' = (o # "ok" /\ ~CaughtByException(o))
            /\ status' = IF o # "ok"
                         THEN (IF CaughtByException(o) THEN "FAILED" ELSE "none")
                         ELSE IF KeepPolling(state, polls) THEN "none" ELSE state
            /\ pc' = IF raised' THEN "idle"
                     ELSE IF o = "ok" /\ KeepPolling(state, polls) THEN "sleep2"
                     ELSE AfterWait(status')
    /\ UNCHANGED <<bucket, objects, body, db, tables, athena, top, steps,
                   nba_data, qid, fetchState, rendered>>

W_sleep ==
    /\ pc = "sleep2"
    /\ calls' = Append(calls, Call("sleep", SleepInterval))
    /\ pc' = "poll"
    /\ UNCHANGED <<bucket, objects, body, db, tables, athena, top, raised, steps,
                   faults, failed, locals>>

P_get_query_results ==
    /\ \E f \in Fault :
         /\ Step("get_query_results", get_query_results(World, job, qid, f),
                 MainNext("get_query_results"))
         /\ rendered' = RowsPrinted(job, qid, f)
    /\ fetchState' = job.state
    /\ UNCHANGED <<athena, nba_data, qid, status, observed>>

\* ------------------------------------------------- delete.py: main()
DeleteNextMut(name) ==
    CASE name = "delete_athena_query_results" -> "delete_glue_resources"
      [] name = "delete_glue_resources" -> "delete_s3_bucket"
      [] name = "delete_s3_bucket" -> "idle"
DeleteNext(name) ==
    CASE name = "delete_athena_query_results" -> "delete_s3_bucket"
      [] name = "delete_s3_bucket" -> "delete_glue_resources"
      [] name = "delete_glue_resources" -> "idle"

StartTeardown == Start("delete_main", "delete_athena_query_results")

T_delete_athena_query_results ==
    /\ \E failAt \in 0..(2 + PageSize), kind \in FaultKind :
         Step("delete_athena_query_results",
              delete_athena_query_results(World, failAt, kind),
              DeleteNext("delete_athena_query_results"))
    /\ UNCHANGED <<athena, locals>>

T_delete_s3_bucket ==
    /\ \E failAt \in 0..(3 + PageSize), kind \in FaultKind :
         Step("delete_s3_bucket", delete_s3_bucket(World, failAt, kind),
              DeleteNext("delete_s3_bucket"))
    /\ UNCHANGED <<athena, locals>>

T_delete_glue_resources ==
    /\ \E failAt \in 0..(2 + TablePageSize), kind \in FaultKind :
         Step("delete_glue_resources", delete_glue_resources(World, failAt, kind),
              DeleteNext("delete_glue_resources"))
    /\ UNCHANGED <<athena, locals>>

\* ------------------------------------------- functions called on their own
D_create_s3_bucket ==
    /\ \E f \in Fault : Direct("create_s3_bucket", create_s3_bucket(World, f))
    /\ UNCHANGED <<athena, locals>>

D_bucket_exists ==
    /\ \E f \in Fault : Direct("bucket_exists", bucket_exists(World, f))
    /\ UNCHANGED <<athena, locals>>

D_upload_data_to_s3 ==
    /\ \E f \in Fault, data \in Batches :
         Direct("upload_data_to_s3", upload_data_to_s3(World, data, f))
    /\ UNCHANGED <<athena, locals>>

D_delete_athena_query_results ==
    /\ \E failAt \in 0..(2 + PageSize), kind \in FaultKind :
         Direct("delete_athena_query_results",
                delete_athena_query_results(World, failAt, kind))
    /\ UNCHANGED <<athena, locals>>

D_delete_s3_bucket ==
    /\ \E failAt \in 0..(3 + PageSize), kind \in FaultKind :
         Direct("delete_s3_bucket", delete_s3_bucket(World, failAt, kind))
    /\ UNCHANGED <<athena, locals>>

D_run_athena_query ==
    /\ \E f \in Fault :
         LET ok == start_query_execution(f) = "ok"
             id == IF ok THEN nextId ELSE 0
         IN /\ Direct("run_athena_query",
                      Result(World, <<Call("start_query_execution", id)>>,
                             ~ok /\ ~CaughtByException(f), f # "ok", f # "ok", "None"))
            /\ qid' = id
            /\ job' = IF ok THEN [id |-> nextId, state |-> "SUBMITTED"] ELSE job
            /\ nextId' = IF ok THEN nextId + 1 ELSE nextId
    /\ UNCHANGED <<nba_data, status, observed, fetchState, rendered>>

D_get_query_results ==
    /\ job.id # 0
    /\ \E f \in Fault :
         /\ Direct("get_query_results", get_query_results(World, job, job.id, f))
         /\ rendered' = RowsPrinted(job, job.id, f)
    /\ fetchState' = job.state
    /\ UNCHANGED <<athena, nba_data, qid, status, observed>>

\* ------------------------------------------------- the Athena service
\* The execution moves SUBMITTED -> RUNNING -> SUCCEEDED | FAILED | CANCELLED on
\* its own, whatever the program is doing.
JobAdvance ==
    /\ job.state \in {"SUBMITTED", "RUNNING"}
    /\ \E s \in JobStates :
         /\ \/ job.state = "SUBMITTED" /\ s = "RUNNING"
            \/ job.state = "RUNNING" /\ s \in Terminal
         /\ job' = [job EXCEPT !.state = s]
    /\ UNCHANGED <<bucket, objects, body, db, tables, nextId, pc, op, prevOp, nops,
                   ret, raised, calls, steps, w0, faults, prevFaulted, failed, locals,
                   config>>

Next ==
    \/ StartProvision
    \/ P_create_s3_bucket
    \/ P_sleep
    \/ P_create_glue_database
    \/ P_fetch_nba_data
    \/ P_upload_data_to_s3
    \/ P_create_glue_table
    \/ P_configure_athena
    \/ P_run_athena_query
    \/ W_enter
    \/ W_poll
    \/ W_sleep
    \/ P_get_query_results
    \/ StartTeardown
    \/ T_delete_athena_query_results
    \/ T_delete_s3_bucket
    \/ T_delete_glue_resources
    \/ D_create_s3_bucket
    \/ D_bucket_exists
    \/ D_upload_data_to_s3
    \/ D_delete_athena_query_results
    \/ D_delete_s3_bucket
    \/ D_run_athena_query
    \/ D_get_query_results
    \/ JobAdvance

Spec == Init /\ [][Next]_vars

\* One run of main() of main.py against the services.
ProvisionNext ==
    \/ StartProvision
    \/ P_create_s3_bucket
    \/ P_sleep
    \/ P_create_glue_database
    \/ P_fetch_nba_data
    \/ P_upload_data_to_s3
    \/ P_create_glue_table
    \/ P_configure_athena
    \/ P_run_athena_query
    \/ W_enter
    \/ W_poll
    \/ W_sleep
    \/ P_get_query_results
    \/ JobAdvance

\* The process keeps running while it is in the polling loop: a pass of the
\* loop and the sleep after it are taken whenever they can be.
LiveSpec == Init /\ [][ProvisionNext]_vars /\ WF_vars(W_poll) /\ WF_vars(W_sleep)

\* main.py run a second time, after its first run has ended. The new process
\* knows no execution: the one the first run submitted is out of its reach.
Rerun ==
    /\ op = "main"
    /\ prevOp = "none"
    /\ Begin("main", "create_s3_bucket")
    /\ job' = NoJob
    /\ nextId' = nextId

RerunNext ==
    \/ ProvisionNext
    \/ Rerun

\* The account before the first run: nothing is provisioned yet, so what the
\* second run finds is what the first run made.
RerunInit ==
    /\ bucket = FALSE
    /\ objects = {}
    /\ body = <<>>
    /\ db = FALSE
    /\ tables = {}
    /\ InitProcess
    /\ nba_data = <<>>
    /\ config = AllConfig

RerunSpec == RerunInit /\ [][RerunNext]_vars

\* One run of main() of main.py under any environment, complete or not.
ConfigInit ==
    /\ InitWorld
    /\ InitProcess
    /\ nba_data = <<>>
    /\ config \in SUBSET AllConfig

ConfigSpec == ConfigInit /\ [][ProvisionNext]_vars

\* ------------------------------- convert_to_line_delimited_json on its own
\* The function is pure: it is given a batch and returns the text.
CodecInit ==
    /\ bucket = FALSE
    /\ objects = {}
    /\ body = <<>>
    /\ db = FALSE
    /\ tables = {}
    /\ InitProcess
    /\ nba_data \in CodecBatches
    /\ config = AllConfig

D_convert_to_line_delimited_json ==
    /\ pc = "idle"
    /\ op = "none"
    /\ op' = "convert_to_line_delimited_json"
    /\ prevOp' = op
    /\ nops' = nops + 1
    /\ ret' = convert_to_line_delimited_json(nba_data)
    /\ UNCHANGED <<bucket, objects, body, db, tables, athena, pc, raised, calls, steps,
                   w0, faults, prevFaulted, failed, locals, config>>

CodecSpec == CodecInit /\ [][D_convert_to_line_delimited_json]_vars

\* ================================================================ claims
Range(q) == {q[i] : i \in 1..Len(q)}
FinishedMain == op = "main" /\ pc = "idle"
FinishedTeardown == op = "delete_main" /\ pc = "idle"
StorageCalls == {"list_objects_v2", "delete_object", "delete_bucket"}
NoStorageCall == \A i \in 1..Len(calls) : Api(calls[i]) \notin StorageCalls

\* C1: wait_for_query_to_complete returns one of SUCCEEDED, FAILED, CANCELLED,
\* and the step in which it returns is one where the most recently polled state
\* of the job, and the job's state, is terminal: it never returns while the job
\* is SUBMITTED or RUNNING.
C1_ReturnsOnlyOnTerminal ==
    [][(status = "none" /\ status' # "none")
         => (status' \in Terminal /\ observed' \in Terminal /\ job'.state \in Terminal)]_vars

\* C2: get_query_results called for a job whose state is not SUCCEEDED is
\* rejected: no get_query_results call reaches the query service and no row is
\* rendered.
C2_FetchRejectedUnlessSucceeded ==
    (op \in {"main", "get_query_results"} /\ fetchState \notin {"none", "SUCCEEDED"})
        => (~Issued(calls, "get_query_results") /\ ~rendered)

\* C3: in main(), when the feed fetch fails the batch is empty, no upload is
\* made (no put_object is issued), and the run still creates the table,
\* configures the query output location and submits the analytic query.
C3_FeedFailureSkipsUploadOnly ==
    (op = "main" /\ "fetch_nba_data" \in failed)
        => /\ nba_data = <<>>
           /\ "upload_data_to_s3" \notin Range(steps)
           /\ ~Issued(calls, "put_object")
           /\ pc # "upload_data_to_s3"
           /\ (pc = "idle" => {"create_glue_table", "configure_athena", "run_athena_query"}
                                 \subseteq Range(steps))
C3_Witness ==
    /\ FinishedMain
    /\ "fetch_nba_data" \in failed
    /\ "create_glue_table" \in Range(steps)
    /\ Count(calls, "start_query_execution") = 2
    /\ status = "SUCCEEDED"

\* C4: no failing service call aborts a workflow: whatever error a call raises,
\* main() of main.py and main() of delete.py run every remaining step, so a
\* finished teardown has called its three functions and a finished provision
\* has reached the query, and no exception leaves either.
C4_NoCallAbortsWorkflow ==
    /\ (op \in Workflows => ~raised)
    /\ (FinishedTeardown
          => steps = <<"delete_athena_query_results", "delete_s3_bucket",
                       "delete_glue_resources">>)
    /\ (FinishedMain => "run_athena_query" \in Range(steps))

\* C5: against services that answer every call, bucket_exists called right after
\* create_s3_bucket returns True, and bucket_exists called right after
\* delete_s3_bucket returns False.
C5_ExistsAfterCreateAndDelete ==
    (op = "bucket_exists" /\ ~faulted /\ ~prevFaulted)
        => /\ (prevOp = "create_s3_bucket" => ret = "True")
           /\ (prevOp = "delete_s3_bucket" => ret = "False")

C7_SkippedWhenAbsent ==
    /\ (op \in {"delete_athena_query_results", "delete_s3_bucket"} /\ ~w0.bucket)
          => (NoStorageCall /\ World = w0 /\ (~faulted => (~raised /\ calls # <<>>)))
    /\ (op = "delete_main" /\ ~w0.bucket)
          => (NoStorageCall /\ ~bucket /\ objects = {}
              /\ (~faulted /\ pc = "delete_glue_resources"
                    => steps = <<"delete_athena_query_results", "delete_s3_bucket">>))
    /\ (op = "delete_athena_query_results" /\ w0.bucket /\ w0.objects \cap AthenaKeys = {})
          => (~Issued(calls, "delete_object") /\ World = w0 /\ (~faulted => ~raised))
    /\ (op = "delete_s3_bucket" /\ w0.bucket /\ w0.objects = {})
          => (~Issued(calls, "delete_object") /\ (~faulted => ~raised /\ ~bucket))
C7_Witness ==
    /\ op = "delete_main"
    /\ ~w0.bucket
    /\ pc = "delete_glue_resources"
    /\ calls = <<Call("head_bucket", 0), Call("head_bucket", 0)>>

\* C8: when the submission of the analytic query fails, run_athena_query hands
\* the failure to its caller at once (it returns None) and there is no job to
\* poll: the run issues no get_query_execution and no get_query_results call.
C8_FailedSubmitIsNotPolled ==
    (op = "main" /\ "run_athena_query" \in failed)
        => /\ qid = 0
           /\ pc = "idle"
           /\ status = "none"
           /\ ~Issued(calls, "get_query_execution")
           /\ ~Issued(calls, "get_query_results")
C8_Witness ==
    /\ FinishedMain
    /\ "run_athena_query" \in failed
    /\ steps[Len(steps)] = "run_athena_query"

\* C9: the polling loop has no timeout and no iteration limit: once the job is in
\* a terminal state the loop returns, and a poll answered SUBMITTED or RUNNING is
\* always followed by the sleep and by another poll, however many came before.
InLoop == pc \in {"poll", "sleep2"}
C9_PollsUntilTerminal ==
    /\ (InLoop /\ job.state \in Terminal) ~> ~InLoop
    /\ [][(pc = "poll" /\ Len(calls') > Len(calls)
             /\ "wait_for_query_to_complete" \notin failed' /\ job.state \notin Terminal)
            => (pc' = "sleep2" /\ status' = "none")]_vars
    /\ [][(pc = "sleep2" /\ pc' # pc) => pc' = "poll"]_vars
C9_Witness ==
    /\ pc = "poll"
    /\ Count(calls, "get_query_execution") = MaxPolls
    /\ job.state \notin Terminal

\* C10: in every run of main() the functions called are called in the order
\* create_s3_bucket, sleep, create_glue_database, fetch_nba_data,
\* upload_data_to_s3, create_glue_table, configure_athena, run_athena_query,
\* wait_for_query_to_complete, get_query_results, each at most once, none
\* skipped but the upload (when the batch is empty), and each after the one
\* before it has returned.
ProvisionOrder ==
    <<"create_s3_bucket", "sleep", "create_glue_database", "fetch_nba_data",
      "upload_data_to_s3", "create_glue_table", "configure_athena",
      "run_athena_query", "wait_for_query_to_complete", "get_query_results">>
Index(name) == CHOOSE i \in 1..Len(ProvisionOrder) : ProvisionOrder[i] = name
C10_ProvisionOrder ==
    op = "main"
        => /\ Range(steps) \subseteq Range(ProvisionOrder)
           /\ (steps # <<>> => steps[1] = "create_s3_bucket")
           /\ \A i \in 1..(Len(steps) - 1) :
                \/ Index(steps[i + 1]) = Index(steps[i]) + 1
                \/ /\ steps[i] = "fetch_nba_data"
                   /\ steps[i + 1] = "create_glue_table"
                   /\ nba_data = <<>>
           /\ ("upload_data_to_s3" \in Range(steps) => nba_data # <<>>)
           /\ (InLoop => steps[Len(steps)] = "wait_for_query_to_complete")
           /\ ("get_query_results" \in Range(steps) => status # "none")
           /\ Len(calls) >= Len(steps) - 1
C10_Witness ==
    /\ FinishedMain
    /\ steps = ProvisionOrder
    /\ rendered

\* C11: in every run of main() of delete.py the functions are called in the
\* order delete_athena_query_results, delete_s3_bucket, delete_glue_resources:
\* the listing under athena-results/ and its deletions come before the listing
\* of the whole bucket, delete_bucket comes after every delete_object,
\* delete_database after every delete_table, and no storage call is issued
\* after the first catalog call.
TeardownOrder ==
    <<"delete_athena_query_results", "delete_s3_bucket", "delete_glue_resources">>
CatalogCalls == {"get_tables", "delete_table", "delete_database"}
Before(a(_), b(_)) ==
    \A i \in 1..Len(calls), j \in 1..Len(calls) : (a(calls[i]) /\ b(calls[j])) => i < j
IsCatalog(c) == Api(c) \in CatalogCalls
IsStorage(c) == Api(c) \in StorageCalls \cup {"head_bucket"}
IsPrefixPass(c) == c = Call("list_objects_v2", 1)
IsBucketPass(c) == c = Call("list_objects_v2", 0)
IsDeleteBucket(c) == Api(c) = "delete_bucket"
IsDeleteObject(c) == Api(c) = "delete_object"
IsDeleteTable(c) == Api(c) = "delete_table"
IsDeleteDatabase(c) == Api(c) = "delete_database"
C11_TeardownOrder ==
    op = "delete_main"
        => /\ Len(steps) <= Len(TeardownOrder)
           /\ \A i \in 1..Len(steps) : steps[i] = TeardownOrder[i]
           /\ Before(IsStorage, IsCatalog)
           /\ Before(IsPrefixPass, IsBucketPass)
           /\ Before(IsDeleteObject, IsDeleteBucket)
           /\ Before(IsBucketPass, IsDeleteBucket)
           /\ Before(IsDeleteTable, IsDeleteDatabase)
           /\ \A i \in 1..Len(calls), j \in 1..Len(calls) :
                (IsDeleteObject(calls[i]) /\ IsBucketPass(calls[j]) /\ i < j)
                    => calls[i][2] \in AthenaKeys
C11_Witness ==
    /\ FinishedTeardown
    /\ steps = TeardownOrder
    /\ \E k \in AthenaKeys : Call("delete_object", k) \in Range(calls)
    /\ \E k \in Keys \ AthenaKeys : Call("delete_object", k) \in Range(calls)
    /\ Issued(calls, "delete_bucket")
    /\ Issued(calls, "delete_table")
    /\ Issued(calls, "delete_database")
    /\ ~bucket /\ ~db

\* C12: when the database does not exist, delete_glue_resources still attempts
\* delete_database after the failed get_tables, and no error leaves it.
C12_DeleteAttemptedWithoutDatabase ==
    (op = "delete_main" /\ "delete_glue_resources" \in Range(steps)
       /\ ~w0.db /\ ~faulted)
        => (Issued(calls, "delete_database") /\ ~raised)

\* C13: bucket_exists never raises: it returns True when head_bucket succeeds
\* and False for every failure of it, a missing bucket, a refused or an
\* unreachable service alike.
C13_BucketExistsNeverRaises ==
    op = "bucket_exists"
        => /\ ~raised
           /\ ret = (IF failed = {} THEN "True" ELSE "False")

\* C17: in wait_for_query_to_complete polls and sleeps alternate: the loop's
\* calls are get_query_execution, sleep(2), get_query_execution, ..., a poll
\* answered SUBMITTED or RUNNING is followed by exactly one sleep of 2 seconds
\* and then by the next poll, the poll answered with a terminal state is
\* followed by no sleep, and when the function has returned it has polled once
\* more than it has slept, whatever the number of non-terminal answers.
SubmitAt == CHOOSE i \in 1..Len(calls) : Api(calls[i]) = "start_query_execution"
                                        /\ \A j \in (i + 1)..Len(calls) :
                                             Api(calls[j]) # "start_query_execution"
LoopLog ==
    IF ~Issued(calls, "start_query_execution") THEN <<>>
    ELSE SelectSeq(SubSeq(calls, SubmitAt + 1, Len(calls)),
                   LAMBDA c : Api(c) # "get_query_results")
Polls == Count(calls, "get_query_execution")
Sleeps == Len(SelectSeq(LoopLog, LAMBDA c : Api(c) = "sleep"))
C17_PollsAndSleepsAlternate ==
    op = "main"
        => LET log == LoopLog
           IN /\ \A i \in 1..Len(log) :
                   log[i] = IF i % 2 = 1 THEN Call("get_query_execution", qid)
                            ELSE Call("sleep", SleepInterval)
              /\ (pc = "poll"
                    => /\ Len(log) % 2 = 0
                       /\ status = "none"
                       /\ (log # <<>> => observed \in {"SUBMITTED", "RUNNING"}))
              /\ (pc = "sleep2"
                    => /\ Len(log) % 2 = 1
                       /\ status = "none"
                       /\ observed \in {"SUBMITTED", "RUNNING"})
              /\ (status # "none"
                    => /\ Len(log) % 2 = 1
                       /\ Polls = Sleeps + 1
                       /\ ("wait_for_query_to_complete" \notin failed
                             => (status \in Terminal /\ observed = status)))
C17_Witness ==
    /\ op = "main"
    /\ status = "SUCCEEDED"
    /\ Polls = MaxPolls
    /\ Sleeps = MaxPolls - 1
C17_WitnessNoSleep ==
    /\ op = "main"
    /\ status \in Terminal
    /\ "wait_for_query_to_complete" \notin failed
    /\ Polls = 1
    /\ Sleeps = 0

\* C18: in main() of main.py get_query_results is called only for the job whose
\* wait returned SUCCEEDED: the call carries the execution id that was
\* submitted, a get_query_execution of that id that observed SUCCEEDED comes
\* before it, and there is no such call when the wait returned FAILED or
\* CANCELLED.
C18_FetchOnlyAfterSucceeded ==
    op = "main"
        => /\ (Issued(calls, "get_query_results")
                 => /\ status = "SUCCEEDED"
                    /\ observed = "SUCCEEDED"
                    /\ qid # 0
                    /\ calls[Len(calls)] = Call("get_query_results", qid)
                    /\ calls[Len(calls) - 1] = Call("get_query_execution", qid)
                    /\ Count(calls, "get_query_results") = 1)
           /\ (status \in {"FAILED", "CANCELLED"}
                 => (~Issued(calls, "get_query_results") /\ pc = "idle" /\ ~rendered))
C18_Witness ==
    /\ FinishedMain
    /\ Issued(calls, "get_query_results")
    /\ rendered
C18_WitnessNoFetch ==
    /\ FinishedMain
    /\ status = "CANCELLED"
    /\ observed = "CANCELLED"

\* C19: delete_s3_bucket issues delete_bucket only after every key of the
\* listing was deleted: when the listing or a delete_object fails with a
\* ClientError no delete_bucket call is issued, the bucket remains, and main()
\* of delete.py goes on to delete_glue_resources.
BucketPassAt == CHOOSE i \in 1..Len(calls) : IsBucketPass(calls[i])
BucketPassDeleted ==
    {calls[i][2] : i \in {j \in (BucketPassAt + 1)..Len(calls) : IsDeleteObject(calls[j])}}
C19_BucketDeletedAfterObjects ==
    op \in {"delete_main", "delete_s3_bucket"}
        => /\ (Issued(calls, "delete_bucket")
                 => /\ BucketPassDeleted \cap objects = {}
                    /\ Range(Listed(objects \cup BucketPassDeleted, Keys)) = BucketPassDeleted)
           /\ ("delete_s3_bucket" \in failed
                 /\ ~raised
                 /\ Call("list_objects_v2", 0) \in Range(calls)
                 /\ ~Issued(calls, "delete_bucket")
                 => /\ bucket
                    /\ (op = "delete_main"
                          => (pc = "delete_glue_resources"
                              \/ "delete_glue_resources" \in Range(steps))))
C19_Witness ==
    /\ FinishedTeardown
    /\ "delete_s3_bucket" \in failed
    /\ ~raised
    /\ Call("list_objects_v2", 0) \in Range(calls)
    /\ Issued(calls, "delete_object")
    /\ ~Issued(calls, "delete_bucket")
    /\ Issued(calls, "get_tables")
    /\ bucket
C19_WitnessDeleted ==
    /\ op = "delete_s3_bucket"
    /\ Issued(calls, "delete_bucket")
    /\ BucketPassDeleted # {}
    /\ ~bucket

\* C20: when get_query_execution raises, wait_for_query_to_complete stops
\* polling, lets no exception out and returns "FAILED", also when the job was
\* last seen, and still is, SUBMITTED or RUNNING; main() then calls no
\* get_query_results and ends.
C20_PollErrorReturnsFailed ==
    (op = "main" /\ "wait_for_query_to_complete" \in failed)
        => /\ status = "FAILED"
           /\ ~raised
           /\ pc = "idle"
           /\ Api(calls[Len(calls)]) = "get_query_execution"
           /\ ~Issued(calls, "get_query_results")
           /\ ~rendered
C20_Witness ==
    /\ FinishedMain
    /\ "wait_for_query_to_complete" \in failed
    /\ status = "FAILED"
    /\ observed = "RUNNING"
    /\ job.state = "RUNNING"
    /\ Polls >= 2

\* C14: convert_to_line_delimited_json keeps the order and round-trips, for
\* every batch and for the empty one: its output has one line per record, in
\* the order of the batch, and decoding each line gives back the record, so the
\* decoded lines are the batch.
\* The lines of a text (str.splitlines, or reading a file line by line): an
\* empty text has none.
RECURSIVE SplitLines(_)
SplitLines(text) ==
    IF text = <<>> THEN <<>>
    ELSE IF \E i \in 1..Len(text) : text[i] = "\n"
    THEN LET i == Min({j \in 1..Len(text) : text[j] = "\n"})
         IN <<SubSeq(text, 1, i - 1)>> \o SplitLines(SubSeq(text, i + 1, Len(text)))
    ELSE <<text>>
\* The inverse of the escaping, read left to right; "invalid" where the text is
\* not the inside of a JSON string.
RECURSIVE Unescape(_)
Unescape(text) ==
    IF text = <<>> THEN <<>>
    ELSE IF Head(text) \in {"\n", "\""} THEN <<"invalid">>
    ELSE IF Head(text) # "\\" THEN <<Head(text)>> \o Unescape(Tail(text))
    ELSE IF Len(text) < 2 THEN <<"invalid">>
    ELSE (CASE text[2] = "n" -> <<"\n">>
            [] text[2] = "\\" -> <<"\\">>
            [] text[2] = "\"" -> <<"\"">>
            [] OTHER -> <<"invalid">>) \o Unescape(Tail(Tail(text)))
\* json.loads(line)
json_loads(line) ==
    IF /\ Len(line) >= 4
       /\ SubSeq(line, 1, 2) = <<"{", "\"">>
       /\ SubSeq(line, Len(line) - 1, Len(line)) = <<"\"", "}">>
    THEN LET text == Unescape(SubSeq(line, 3, Len(line) - 2))
         IN IF "invalid" \in Range(text) THEN <<"invalid">> ELSE text
    ELSE <<"invalid">>
C14_RoundTrip ==
    op = "convert_to_line_delimited_json"
        => LET lines == SplitLines(ret)
           IN /\ Len(lines) = Len(nba_data)
              /\ \A i \in 1..Len(lines) : lines[i] = json_dumps(nba_data[i])
              /\ [i \in 1..Len(lines) |-> json_loads(lines[i])] = nba_data
C14_Witness ==
    /\ op = "convert_to_line_delimited_json"
    /\ Len(nba_data) = MaxCodecBatch
    /\ nba_data[1] # nba_data[Len(nba_data)]
    /\ \E i \in 1..Len(nba_data) : "\n" \in Range(nba_data[i])
    /\ \E i \in 1..Len(nba_data) : "\\" \in Range(nba_data[i])
C14_WitnessEmpty ==
    /\ op = "convert_to_line_delimited_json"
    /\ nba_data = <<>>
    /\ ret = <<>>

\* C15: when AWS_BUCKET_NAME, GLUE_DATABASE_NAME, API_KEY or NBA_ENDPOINT is
\* not set, main() of main.py reports it before it provisions anything: no
\* call goes to S3, Glue, Athena or the feed in that run.
C15_NoCallWithoutConfig ==
    (op = "main" /\ config # AllConfig)
        => \A i \in 1..Len(calls) : Api(calls[i]) = "sleep"

\* C16: main.py can be run again: a second run of main() on what a first run
\* left (the bucket, the database, the table and the raw-data object in place,
\* the feed giving the same batch, or none) calls every function of the
\* workflow up to the query, raises nothing, and leaves the bucket, the
\* database, its tables and the raw-data object and its content as they were.
SecondRun == op = "main" /\ prevOp = "main"
Provisioned(w) == w.bucket /\ w.db /\ NbaPlayers \in w.tables /\ RawKey \in w.objects
SameFeed == HasData(nba_data) => convert_to_line_delimited_json(nba_data) = w0.body
C16_RerunLeavesStateAsItWas ==
    (SecondRun /\ pc = "idle" /\ Provisioned(w0) /\ SameFeed)
        => /\ ~raised
           /\ \A i \in 1..Len(ProvisionOrder) :
                (i < Index("wait_for_query_to_complete")
                   /\ ProvisionOrder[i] # "upload_data_to_s3")
                    => ProvisionOrder[i] \in Range(steps)
           /\ ("upload_data_to_s3" \in Range(steps) <=> HasData(nba_data))
           /\ bucket = w0.bucket
           /\ db = w0.db
           /\ tables = w0.tables
           /\ RawKey \in objects
           /\ body = w0.body
C16_Witness ==
    /\ SecondRun
    /\ pc = "idle"
    /\ Provisioned(w0)
    /\ ~prevFaulted
    /\ ~faulted
    /\ HasData(nba_data)
    /\ w0.body = convert_to_line_delimited_json(nba_data)
    /\ "upload_data_to_s3" \in Range(steps)
    /\ {"create_glue_database", "create_glue_table"} \subseteq failed
    /\ "upload_data_to_s3" \notin failed

====
